---- MODULE Spec2Model ----
(***************************************************************************)
(* Conway's Game of Life: the imperative engine (GameOfLifeMutable), the   *)
(* functional engine (step, from_strings) and the construction of grids.   *)
(*                                                                         *)
(* Grids are sequences of rows, rows are sequences of cells.  The code     *)
(* indexes from 0; the model keeps the code's 0-based r, c and reads       *)
(* g[r + 1][c + 1].                                                        *)
(***************************************************************************)
EXTENDS Integers, Sequences, FiniteSets

\* ------------------------------------------------------------------ bounds

\* Largest grid the stepping specification starts from.
MaxRows == 3
MaxCols == 3
\* Largest raw source (rows, and cells over all rows) handed to the constructor
\* in the construction specification.
MaxSrcRows == 2
MaxSrcCells == 5
\* Largest text (lines, and characters over all lines) handed to from_strings.
MaxLines == 2
MaxChars == 4
\* Largest grid a blinker or a block is placed in.
MaxPatRows == 4
MaxPatCols == 5
\* Largest source two sessions are built from, the clones one caller keeps,
\* and the list objects alive at one time.
AliasRows == 2
AliasCols == 1
MaxClones == 1
MaxObjects == 15
\* The grid of a driver (its rows and cols arguments), the generations it
\* shows and the timers it is followed through.
GuiRows == 1
GuiCols == 3
MaxGeneration == 3
MaxTimers == 3

\* ----------------------------------------------------------------- values

\* Variant: one cell too many in every row of the new buffer.
ZeroGridWide(nr, nc) == [i \in 1..nr |-> [j \in 1..(nc + 1) |-> 0]]

\* [[0] * cols for _ in range(rows)]
ZeroGrid(nr, nc) == [i \in 1..nr |-> [j \in 1..nc |-> 0]]

\* g[r][c] = v on a list of lists
Put(g, rr, cc, v) == [g EXCEPT ![rr + 1][cc + 1] = v]

\* All rectangular 0/1 grids of at most nr rows and nc columns, the grid with
\* no rows and the grids whose rows are empty included.
BinaryGrids(nr, nc) ==
    UNION { [1..a -> [1..b -> {0, 1}]] : a \in 0..nr, b \in 0..nc }

\* ------------------------------------------------------------ the engines

VARIABLES
    \* the caller's arguments to GameOfLifeMutable(grid, wrap)
    src, wrapArg,
    \* the session: where it is, the constructor's locals, its attributes
    \* (attrs: the attributes assigned so far; one not in attrs does not exist,
    \* and its variable holds a placeholder)
    pc, snapshot, vi, vcols, attrs, grid, rows, cols, wrap, err,
    \* GameOfLifeMutable.step: its locals and what it last computed
    next_grid, r, c, last, steperr,
    \* steps of the imperative engine not yet matched by the functional one
    lag, stepped,
    \* the functional engine: the grid value, step's position and result so far
    fgrid, fpc, fnext, frow, flast, ferr,
    \* from_strings: the lines, where the call is, its result
    lines, tpc, parsed, perr,
    \* to_strings of the parsed grid, and from_strings of that text
    shown, reparsed, rerr,
    \* the list objects by address, the caller's source list, the two sessions
    \* built from it, the lists clone_grid returned
    heap, srcRef, sess, clones,
    \* a driver: which engine it drives, its fields running, after_id (0 for
    \* None) and generation, its grid (self.game.grid or self.grid), the timer
    \* callbacks Tk holds for it, the timers issued so far, and the engine
    \* steps applied to the grid since it was last replaced
    driver, running, after_id, generation, ggrid, pending, timers, applied

sessionVars == <<pc, snapshot, vi, vcols, attrs, grid, rows, cols, wrap, err>>
stepVars == <<next_grid, r, c, last, steperr>>
funVars == <<fgrid, fpc, fnext, frow, flast, ferr>>
textVars == <<lines, tpc, parsed, perr>>
renderVars == <<shown, reparsed, rerr>>
\* What the engines' own steps never touch.
heapVars == <<heap, srcRef, sess, clones>>
guiVars == <<driver, running, after_id, generation, ggrid, pending, timers, applied>>
otherVars == <<heapVars, guiVars>>
extVars == <<renderVars, otherVars>>
vars == <<src, wrapArg, sessionVars, stepVars, lag, stepped, funVars, textVars,
          extVars>>

\* Nothing computed yet.
NoCell == [cell |-> -1, n |-> -1, out |-> -1, r |-> -1, c |-> -1, seen |-> <<>>]

\* The values held by all rows of s together.
RECURSIVE TotalLen(_)
TotalLen(s) == IF s = <<>> THEN 0 ELSE Len(Head(s)) + TotalLen(Tail(s))

\* ------------------------------------------------- GameOfLifeMutable.__init__

\* The caller writes the rows it will hand to the constructor: one more value
\* on the last row (2 stands for every value that is neither 0 nor 1), or a
\* new row.
SourceCell(v) ==
    /\ pc = "new"
    /\ src # <<>>
    /\ TotalLen(src) < MaxSrcCells
    /\ src' = [src EXCEPT ![Len(src)] = Append(@, v)]
    /\ UNCHANGED <<wrapArg, sessionVars, stepVars, lag, stepped, funVars, textVars>>
    /\ UNCHANGED extVars

SourceRow ==
    /\ pc = "new"
    /\ Len(src) < MaxSrcRows
    /\ src' = Append(src, <<>>)
    /\ UNCHANGED <<wrapArg, sessionVars, stepVars, lag, stepped, funVars, textVars>>
    /\ UNCHANGED extVars

\* Variant: self.grid = snapshot moved up, ahead of the validation loop.
CtorPrologueAssignsGrid(snap) ==
    IF snap = <<>> THEN {"grid", "rows", "cols"} ELSE {"grid"}

\* The attributes assigned by the constructor's prologue (snapshot taken, the
\* empty snapshot returned early): grid, rows and cols for the empty snapshot,
\* none otherwise.
CtorPrologueAttrs(snap) ==
    IF snap = <<>> THEN {"grid", "rows", "cols"} ELSE {}

\* Variant: the row-length test left out.
RowCheckNoLength(row, ncols) ==
    IF \E k \in 1..Len(row) : row[k] \notin {0, 1} THEN "invalid" ELSE "ok"

\* One iteration of the validation loop, the row-length test first.
RowCheck(row, ncols) ==
    IF Len(row) # ncols THEN "ragged"
    ELSE IF \E k \in 1..Len(row) : row[k] \notin {0, 1} THEN "invalid"
    ELSE "ok"

\* snapshot = [list(row) for row in grid]; if not snapshot: ...; return
\* cols = len(snapshot[0])
CtorBegin ==
    /\ pc = "new"
    /\ snapshot' = src
    /\ attrs' = CtorPrologueAttrs(src)
    /\ grid' = IF "grid" \in attrs' THEN src ELSE grid
    /\ IF src = <<>>
       THEN /\ rows' = 0
            /\ cols' = 0
            /\ pc' = "ready"
            /\ UNCHANGED <<vi, vcols>>
       ELSE /\ vcols' = Len(src[1])
            /\ vi' = 0
            /\ pc' = "validate"
            /\ UNCHANGED <<rows, cols>>
    /\ UNCHANGED <<src, wrapArg, wrap, err, stepVars, lag, stepped, funVars, textVars>>
    /\ UNCHANGED extVars

\* for row in snapshot: the two tests, each raising ValueError
CtorRow ==
    /\ pc = "validate"
    /\ vi < Len(snapshot)
    /\ LET verdict == RowCheck(snapshot[vi + 1], vcols)
       IN IF verdict = "ok"
          THEN /\ vi' = vi + 1
               /\ UNCHANGED <<pc, err>>
          ELSE /\ err' = verdict
               /\ pc' = "failed"
               /\ UNCHANGED vi
    /\ UNCHANGED <<src, wrapArg, snapshot, vcols, attrs, grid, rows, cols, wrap,
                   stepVars, lag, stepped, funVars, textVars>>
    /\ UNCHANGED extVars

\* self.grid = snapshot; self.rows = len(snapshot); self.cols = cols; self.wrap = wrap
CtorAssign ==
    /\ pc = "validate"
    /\ vi = Len(snapshot)
    /\ attrs' = {"grid", "rows", "cols", "wrap"}
    /\ grid' = snapshot
    /\ rows' = Len(snapshot)
    /\ cols' = vcols
    /\ wrap' = wrapArg
    /\ pc' = "ready"
    /\ UNCHANGED <<src, wrapArg, snapshot, vi, vcols, err,
                   stepVars, lag, stepped, funVars, textVars>>
    /\ UNCHANGED extVars

\* ----------------------------------------- neighbour counting, both engines

\* Variant: the four diagonal offsets left out.
OffsetsOrthogonal ==
    << <<-1, 0>>, <<0, -1>>, <<0, 1>>, <<1, 0>> >>

\* The eight offsets (dr, dc), in the order both engines list them.
Offsets ==
    << <<-1, -1>>, <<-1, 0>>, <<-1, 1>>, <<0, -1>>,
       <<0, 1>>, <<1, -1>>, <<1, 0>>, <<1, 1>> >>

\* Variant: the wrap branch left out, every session counted as Bounded.
ContribMNoWrap(g, nr, nc, w, rr, cc) ==
    IF 0 <= rr /\ rr < nr /\ 0 <= cc /\ cc < nc THEN g[rr + 1][cc + 1] ELSE 0

\* GameOfLifeMutable.count_live_neighbors: what one offset adds to total.
\* (Python's % with a positive modulus is never negative, as is TLA+'s.)
ContribM(g, nr, nc, w, rr, cc) ==
    IF w
    THEN g[(rr % nr) + 1][(cc % nc) + 1]
    ELSE IF 0 <= rr /\ rr < nr /\ 0 <= cc /\ cc < nc
         THEN g[rr + 1][cc + 1]
         ELSE 0

RECURSIVE CountMFrom(_, _, _, _, _, _, _, _)
CountMFrom(offs, k, g, nr, nc, w, row, col) ==
    IF k > Len(offs) THEN 0
    ELSE ContribM(g, nr, nc, w, row + offs[k][1], col + offs[k][2])
         + CountMFrom(offs, k + 1, g, nr, nc, w, row, col)

\* Variant: under wrap the row is wrapped, the column is not.
LookupMRowWrapped(nr, nc, w, rr, cc) ==
    IF w
    THEN << <<rr % nr, cc>> >>
    ELSE IF 0 <= rr /\ rr < nr /\ 0 <= cc /\ cc < nc
         THEN << <<rr, cc>> >>
         ELSE <<>>

\* GameOfLifeMutable.count_live_neighbors: the index pair [r][c] read from
\* self.grid for one offset, as a sequence of one pair, or of none when the
\* offset is skipped.
LookupM(nr, nc, w, rr, cc) ==
    IF w
    THEN << <<rr % nr, cc % nc>> >>
    ELSE IF 0 <= rr /\ rr < nr /\ 0 <= cc /\ cc < nc
         THEN << <<rr, cc>> >>
         ELSE <<>>

\* The index pairs read while counting for (row, col), in the order read.
RECURSIVE LookupsMFrom(_, _, _, _, _, _, _)
LookupsMFrom(offs, k, nr, nc, w, row, col) ==
    IF k > Len(offs) THEN <<>>
    ELSE LookupM(nr, nc, w, row + offs[k][1], col + offs[k][2])
         \o LookupsMFrom(offs, k + 1, nr, nc, w, row, col)

\* Variant: the offset (0, 0) among the offsets, the cell counted as its own
\* neighbour.
CountMWithSelf(g, nr, nc, w, row, col) ==
    CountMFrom(Offsets \o << <<0, 0>> >>, 1, g, nr, nc, w, row, col)

\* GameOfLifeMutable.count_live_neighbors(row, col) of a session with the
\* attributes g, nr, nc, w.
count_live_neighbors(g, nr, nc, w, row, col) ==
    CountMFrom(Offsets, 1, g, nr, nc, w, row, col)

\* make_neighbor_counter(grid)'s count(r, c): the offsets in range, summed.
RECURSIVE CountFFrom(_, _, _, _, _)
CountFFrom(offs, k, g, row, col) ==
    IF k > Len(offs) THEN 0
    ELSE LET rr == row + offs[k][1]
             cc == col + offs[k][2]
         IN (IF 0 <= rr /\ rr < Len(g) /\ 0 <= cc /\ cc < Len(g[1])
             THEN g[rr + 1][cc + 1] ELSE 0)
            + CountFFrom(offs, k + 1, g, row, col)

count(g, row, col) == CountFFrom(Offsets, 1, g, row, col)

\* make_neighbor_counter's count: the index pair read from grid for one
\* offset, none when the generator's filter drops the offset.
LookupF(nr, nc, rr, cc) ==
    IF 0 <= rr /\ rr < nr /\ 0 <= cc /\ cc < nc THEN << <<rr, cc>> >> ELSE <<>>

RECURSIVE LookupsFFrom(_, _, _, _, _, _)
LookupsFFrom(offs, k, nr, nc, row, col) ==
    IF k > Len(offs) THEN <<>>
    ELSE LookupF(nr, nc, row + offs[k][1], col + offs[k][2])
         \o LookupsFFrom(offs, k + 1, nr, nc, row, col)

\* ------------------------------------------------------------- the rule

\* Variant: a live cell survives any count of 2 or more.
RuleMNoDeath(cell, n) ==
    IF cell = 1 THEN (IF n >= 2 THEN 1 ELSE 0)
    ELSE (IF n = 3 THEN 1 ELSE 0)

\* GameOfLifeMutable.step: the value written for a cell and its count.
RuleM(cell, n) ==
    IF cell = 1 THEN (IF n \in {2, 3} THEN 1 ELSE 0)
    ELSE (IF n = 3 THEN 1 ELSE 0)

\* Variant: birth on 2 neighbours.
RuleFBirthOnTwo(cell, n) ==
    IF cell = 1 /\ n \in {2, 3} THEN 1
    ELSE IF cell = 1 THEN 0
    ELSE IF cell = 0 /\ n = 2 THEN 1
    ELSE 0

\* Variant: a live cell survives on 2 neighbours only.
RuleFSurviveOnTwo(cell, n) ==
    IF cell = 1 /\ n = 2 THEN 1
    ELSE IF cell = 1 THEN 0
    ELSE IF cell = 0 /\ n = 3 THEN 1
    ELSE 0

\* make_next_cell's match (cell, live_neighbors): the cases are tried in
\* order, the first that matches returns.
RuleF(cell, n) ==
    IF cell = 1 /\ n \in {2, 3} THEN 1
    ELSE IF cell = 1 THEN 0
    ELSE IF cell = 0 /\ n = 3 THEN 1
    ELSE 0

\* ------------------------------------------------- GameOfLifeMutable.step

\* Variant: the step writes the visible grid as it goes.
WriteCellInPlace(cur, nxt, rr, cc, v) ==
    [cur |-> Put(cur, rr, cc, v), nxt |-> Put(nxt, rr, cc, v)]

\* The two buffers after next_grid[r][c] = v.
WriteCell(cur, nxt, rr, cc, v) ==
    [cur |-> cur, nxt |-> Put(nxt, rr, cc, v)]

\* if not self.grid: return; next_grid = [[0] * self.cols for _ in range(self.rows)]
StepBegin ==
    /\ pc = "ready"
    /\ lag = 0
    /\ fpc = "idle"
    /\ IF grid = <<>>
       THEN /\ lag' = 1
            /\ UNCHANGED <<pc, next_grid, r, c>>
       ELSE /\ next_grid' = ZeroGrid(rows, cols)
            /\ r' = 0
            /\ c' = 0
            /\ pc' = "pass"
            /\ UNCHANGED lag
    /\ UNCHANGED <<src, wrapArg, snapshot, vi, vcols, attrs, grid, rows, cols, wrap,
                   err, last, steperr, stepped, funVars, textVars>>
    /\ UNCHANGED extVars

\* One iteration of the inner loop: count, apply the rule, write next_grid[r][c].
StepCell ==
    /\ pc = "pass"
    /\ r < rows
    /\ cols > 0
    /\ steperr = "none"
    /\ IF "wrap" \notin attrs
       THEN \* self.wrap was never assigned: the read raises
            /\ steperr' = "AttributeError"
            /\ UNCHANGED <<grid, next_grid, last, r, c>>
       ELSE /\ LET live_neighbors == count_live_neighbors(grid, rows, cols, wrap, r, c)
                   v == RuleM(grid[r + 1][c + 1], live_neighbors)
                   w == WriteCell(grid, next_grid, r, c, v)
               IN /\ grid' = w.cur
                  /\ next_grid' = w.nxt
                  /\ last' = [cell |-> grid[r + 1][c + 1], n |-> live_neighbors,
                              out |-> v, r |-> r, c |-> c,
                              seen |-> LookupsMFrom(Offsets, 1, rows, cols, wrap, r, c)]
            /\ IF c + 1 < cols
               THEN /\ c' = c + 1
                    /\ UNCHANGED r
               ELSE /\ c' = 0
                    /\ r' = r + 1
            /\ UNCHANGED steperr
    /\ UNCHANGED <<src, wrapArg, pc, snapshot, vi, vcols, attrs, rows, cols, wrap,
                   err, lag, stepped, funVars, textVars>>
    /\ UNCHANGED extVars

\* self.grid = next_grid, after both loops
StepEnd ==
    /\ pc = "pass"
    /\ steperr = "none"
    /\ r = rows \/ cols = 0
    /\ grid' = next_grid
    /\ pc' = "ready"
    /\ lag' = 1
    /\ UNCHANGED <<src, wrapArg, snapshot, vi, vcols, attrs, rows, cols, wrap, err,
                   next_grid, r, c, last, steperr, stepped, funVars, textVars>>
    /\ UNCHANGED extVars

\* The next_grid of GameOfLifeMutable.step as one value: what StepBegin and
\* StepCell build cell by cell for a session with the attributes g, nr, nc, w.
NextGrid(g, nr, nc, w) ==
    [i \in 1..nr |-> [j \in 1..nc |->
        RuleM(g[i][j], count_live_neighbors(g, nr, nc, w, i - 1, j - 1))]]

\* ------------------------------------------------------ step (functional)

\* Variant: the guard left out.
StepGuardNever(g) == FALSE

\* `if not grid`: the empty tuple is falsy.
StepGuard(g) == g = <<>>

\* next_cell(r, c)
next_cell(g, row, col) == RuleF(g[row + 1][col + 1], count(g, row, col))

\* step(grid) as one value: what FBegin .. FEnd build cell by cell.
step(g) ==
    IF StepGuard(g) THEN <<>>
    ELSE [i \in 1..Len(g) |-> [j \in 1..Len(g[1]) |-> next_cell(g, i - 1, j - 1)]]

\* if not grid: return (); rows, cols = len(grid), len(grid[0])
FBegin ==
    /\ pc = "ready"
    /\ lag = 1
    /\ fpc = "idle"
    /\ ferr = "none"
    /\ IF StepGuard(fgrid)
       THEN /\ fgrid' = <<>>
            /\ lag' = 0
            /\ stepped' = TRUE
            /\ UNCHANGED <<fpc, fnext, frow, ferr>>
       ELSE IF Len(fgrid) = 0
            THEN /\ ferr' = "IndexError"
                 /\ UNCHANGED <<fgrid, fpc, fnext, frow, lag, stepped>>
            ELSE /\ fpc' = "pass"
                 /\ fnext' = <<>>
                 /\ frow' = <<>>
                 /\ UNCHANGED <<fgrid, lag, stepped, ferr>>
    /\ UNCHANGED <<src, wrapArg, sessionVars, stepVars, flast, textVars>>
    /\ UNCHANGED extVars

\* The inner generator yields next_cell(r, c) for the next c of row r.
FCell ==
    /\ fpc = "pass"
    /\ Len(fnext) < Len(fgrid)
    /\ Len(frow) < Len(fgrid[1])
    /\ LET row == Len(fnext)
           col == Len(frow)
           v == next_cell(fgrid, row, col)
       IN /\ frow' = Append(frow, v)
          /\ flast' = [cell |-> fgrid[row + 1][col + 1], n |-> count(fgrid, row, col),
                       out |-> v, r |-> row, c |-> col,
                       seen |-> LookupsFFrom(Offsets, 1, Len(fgrid), Len(fgrid[1]),
                                             row, col)]
    /\ UNCHANGED <<src, wrapArg, sessionVars, stepVars, lag, stepped,
                   fgrid, fpc, fnext, ferr, textVars>>
    /\ UNCHANGED extVars

\* The inner tuple(...) is complete: the outer generator yields row r.
FRow ==
    /\ fpc = "pass"
    /\ Len(fnext) < Len(fgrid)
    /\ Len(frow) = Len(fgrid[1])
    /\ fnext' = Append(fnext, frow)
    /\ frow' = <<>>
    /\ UNCHANGED <<src, wrapArg, sessionVars, stepVars, lag, stepped,
                   fgrid, fpc, flast, ferr, textVars>>
    /\ UNCHANGED extVars

\* The outer tuple(...) is returned: the caller's grid is the new value.
FEnd ==
    /\ fpc = "pass"
    /\ Len(fnext) = Len(fgrid)
    /\ fgrid' = fnext
    /\ fpc' = "idle"
    /\ lag' = 0
    /\ stepped' = TRUE
    /\ UNCHANGED <<src, wrapArg, sessionVars, stepVars, fnext, frow, flast, ferr,
                   textVars>>
    /\ UNCHANGED extVars

\* ------------------------------------------------------------ from_strings

\* The characters the model types: the four live markers, '0', '.' for any
\* other printing character, and the space for whitespace.
Alphabet == {"1", "#", "*", "X", "0", ".", " "}

\* What str.strip() removes at both ends.
Whitespace == {" "}

\* The caller writes the text it will hand to from_strings: one more
\* character on the last line, or a new line.
TypeChar(ch) ==
    /\ tpc = "typing"
    /\ lines # <<>>
    /\ TotalLen(lines) < MaxChars
    /\ lines' = [lines EXCEPT ![Len(lines)] = Append(@, ch)]
    /\ UNCHANGED <<src, wrapArg, sessionVars, stepVars, lag, stepped, funVars,
                   tpc, parsed, perr>>
    /\ UNCHANGED extVars

NewLine ==
    /\ tpc = "typing"
    /\ Len(lines) < MaxLines
    /\ lines' = Append(lines, <<>>)
    /\ UNCHANGED <<src, wrapArg, sessionVars, stepVars, lag, stepped, funVars,
                   tpc, parsed, perr>>
    /\ UNCHANGED extVars

\* char_to_cell's match
char_to_cell(ch) ==
    IF ch \in {"1", "#", "*", "X"} THEN 1 ELSE 0

\* line.strip(): whitespace dropped from the left end, then from the right end.
RECURSIVE LStrip(_)
LStrip(s) ==
    IF s # <<>> /\ Head(s) \in Whitespace THEN LStrip(Tail(s)) ELSE s

RECURSIVE RStrip(_)
RStrip(s) ==
    IF s # <<>> /\ s[Len(s)] \in Whitespace
    THEN RStrip(SubSeq(s, 1, Len(s) - 1))
    ELSE s

\* Variant: the line taken as it is.
StripNothing(s) == s

Strip(s) == RStrip(LStrip(s))

\* tuple(map(char_to_cell, line.strip()))
DecodeLine(line) ==
    LET t == Strip(line) IN [k \in 1..Len(t) |-> char_to_cell(t[k])]

\* tuple(... for line in lines if line.strip())
RECURSIVE DecodeLines(_)
DecodeLines(ls) ==
    IF ls = <<>> THEN <<>>
    ELSE IF Strip(Head(ls)) # <<>>
         THEN <<DecodeLine(Head(ls))>> \o DecodeLines(Tail(ls))
         ELSE DecodeLines(Tail(ls))

\* Variant: the case () left out.
MatchGridAcceptsEmpty(g) ==
    IF g # <<>> /\ \E k \in 2..Len(g) : Len(g[k]) # Len(g[1]) THEN "ragged"
    ELSE "none"

\* match grid: case () raises, case (first, *rest) raises on a row of another
\* length; otherwise the grid is returned.
MatchGrid(g) ==
    IF g = <<>> THEN "empty"
    ELSE IF \E k \in 2..Len(g) : Len(g[k]) # Len(g[1]) THEN "ragged"
    ELSE "none"

\* from_strings(lines): returns the grid or raises ValueError.
FromStrings ==
    /\ tpc = "typing"
    /\ LET g == DecodeLines(lines)
           e == MatchGrid(g)
       IN /\ perr' = e
          /\ parsed' = IF e = "none" THEN g ELSE parsed
          /\ tpc' = IF e = "none" THEN "returned" ELSE "raised"
    /\ UNCHANGED <<src, wrapArg, sessionVars, stepVars, lag, stepped, funVars, lines>>
    /\ UNCHANGED extVars

\* -------------------------------------------------------------- to_strings

\* Variant: the rows rendered from the bottom up.
ToStringsBottomUp(g) ==
    [k \in 1..Len(g) |->
        [j \in 1..Len(g[Len(g) + 1 - k]) |->
            IF g[Len(g) + 1 - k][j] # 0 THEN "1" ELSE "0"]]

\* tuple("".join("1" if cell else "0" for cell in row) for row in grid)
to_strings(g) ==
    [k \in 1..Len(g) |-> [j \in 1..Len(g[k]) |-> IF g[k][j] # 0 THEN "1" ELSE "0"]]

\* from_strings(ls) as a value: the grid returned, or the error raised.
from_strings(ls) ==
    LET g == DecodeLines(ls)
        e == MatchGrid(g)
    IN [grid |-> IF e = "none" THEN g ELSE <<>>, err |-> e]

\* The caller renders the grid from_strings returned.
ToStrings ==
    /\ tpc = "returned"
    /\ shown' = to_strings(parsed)
    /\ tpc' = "shown"
    /\ UNCHANGED <<src, wrapArg, sessionVars, stepVars, lag, stepped, funVars,
                   lines, parsed, perr, reparsed, rerr, otherVars>>

\* The caller parses the rendered text again.
Reparse ==
    /\ tpc = "shown"
    /\ LET back == from_strings(shown)
       IN /\ rerr' = back.err
          /\ reparsed' = back.grid
    /\ tpc' = "reparsed"
    /\ UNCHANGED <<src, wrapArg, sessionVars, stepVars, lag, stepped, funVars,
                   lines, parsed, perr, shown, otherVars>>

\* Nothing rendered yet.
RenderOff == shown = <<>> /\ reparsed = <<>> /\ rerr = "none"

\* No list object followed by address.
HeapOff == heap = <<>> /\ srcRef = 0 /\ sess = <<>> /\ clones = <<>>

\* No driver.
GuiOff ==
    /\ driver = "none" /\ running = FALSE /\ after_id = 0 /\ generation = 0
    /\ ggrid = <<>> /\ pending = {} /\ timers = 0 /\ applied = 0

ExtOff == HeapOff /\ GuiOff

\* ---------------------------------------------------------- specification

\* A driver holds one valid 0/1 grid, builds a session from it and folds the
\* functional step over the same grid, one step of each engine in turn.
Init ==
    /\ src \in BinaryGrids(MaxRows, MaxCols)
    /\ wrapArg \in BOOLEAN
    /\ pc = "new"
    /\ snapshot = <<>> /\ vi = 0 /\ vcols = 0
    /\ attrs = {} /\ grid = <<>> /\ rows = 0 /\ cols = 0 /\ wrap = FALSE
    /\ err = "none"
    /\ next_grid = <<>> /\ r = 0 /\ c = 0 /\ last = NoCell /\ steperr = "none"
    /\ lag = 0 /\ stepped = FALSE
    /\ fgrid = src /\ fpc = "idle" /\ fnext = <<>> /\ frow = <<>>
    /\ flast = NoCell /\ ferr = "none"
    /\ lines = <<>> /\ tpc = "off" /\ parsed = <<>> /\ perr = "none"
    /\ RenderOff /\ ExtOff

Next ==
    \/ CtorBegin
    \/ CtorRow
    \/ CtorAssign
    \/ StepBegin
    \/ StepCell
    \/ StepEnd
    \/ FBegin
    \/ FCell
    \/ FRow
    \/ FEnd

Spec == Init /\ [][Next]_vars

\* Construction alone: a caller hands any rows of values to GameOfLifeMutable,
\* or any lines of text to from_strings.
InitRaw ==
    /\ src = <<>>
    /\ wrapArg \in BOOLEAN
    /\ pc = "new"
    /\ snapshot = <<>> /\ vi = 0 /\ vcols = 0
    /\ attrs = {} /\ grid = <<>> /\ rows = 0 /\ cols = 0 /\ wrap = FALSE
    /\ err = "none"
    /\ next_grid = <<>> /\ r = 0 /\ c = 0 /\ last = NoCell /\ steperr = "none"
    /\ lag = 0 /\ stepped = FALSE
    /\ fgrid = <<>> /\ fpc = "off" /\ fnext = <<>> /\ frow = <<>>
    /\ flast = NoCell /\ ferr = "none"
    /\ lines = <<>> /\ tpc = "off" /\ parsed = <<>> /\ perr = "none"
    /\ RenderOff /\ ExtOff

InitText ==
    /\ src = <<>>
    /\ wrapArg = FALSE
    /\ pc = "off"
    /\ snapshot = <<>> /\ vi = 0 /\ vcols = 0
    /\ attrs = {} /\ grid = <<>> /\ rows = 0 /\ cols = 0 /\ wrap = FALSE
    /\ err = "none"
    /\ next_grid = <<>> /\ r = 0 /\ c = 0 /\ last = NoCell /\ steperr = "none"
    /\ lag = 0 /\ stepped = FALSE
    /\ fgrid = <<>> /\ fpc = "off" /\ fnext = <<>> /\ frow = <<>>
    /\ flast = NoCell /\ ferr = "none"
    /\ lines = <<>>
    /\ tpc = "typing" /\ parsed = <<>> /\ perr = "none"
    /\ RenderOff /\ ExtOff

InitBuild == InitRaw \/ InitText

NextBuild ==
    \/ \E v \in {0, 1, 2} : SourceCell(v)
    \/ SourceRow
    \/ \E ch \in Alphabet : TypeChar(ch)
    \/ NewLine
    \/ CtorBegin
    \/ CtorRow
    \/ CtorAssign
    \/ FromStrings
    \/ ToStrings
    \/ Reparse

SpecBuild == InitBuild /\ [][NextBuild]_vars

\* The known patterns: a driver starts both engines from a grid that is dead
\* but for one horizontal blinker with a dead margin around it, or one 2x2
\* block anywhere, under the Bounded policy.

\* The nr x nc grid whose live cells are the cells (r, c) of `alive`.
GridWith(nr, nc, alive) ==
    [i \in 1..nr |-> [j \in 1..nc |-> IF <<i - 1, j - 1>> \in alive THEN 1 ELSE 0]]

\* The three cells of the horizontal and of the vertical line centred on (i, j).
HLine(i, j) == { <<i, j - 1>>, <<i, j>>, <<i, j + 1>> }
VLine(i, j) == { <<i - 1, j>>, <<i, j>>, <<i + 1, j>> }

\* The four cells of the block whose top left cell is (i, j).
Block(i, j) == { <<i, j>>, <<i, j + 1>>, <<i + 1, j>>, <<i + 1, j + 1>> }

\* The grids holding one horizontal blinker and a margin of one dead cell at
\* least on every side of the line.
BlinkerGrids ==
    { GridWith(nr, nc, HLine(i, j)) :
        <<nr, nc, i, j>> \in { q \in (3..MaxPatRows) \X (5..MaxPatCols)
                                      \X (0..MaxPatRows) \X (0..MaxPatCols) :
                                 /\ 1 <= q[3] /\ q[3] <= q[1] - 2
                                 /\ 2 <= q[4] /\ q[4] <= q[2] - 3 } }

\* The grids holding one block, the 2x2 grid that is the block included.
BlockGrids ==
    { GridWith(nr, nc, Block(i, j)) :
        <<nr, nc, i, j>> \in { q \in (2..MaxPatRows) \X (2..MaxPatCols)
                                      \X (0..MaxPatRows) \X (0..MaxPatCols) :
                                 /\ q[3] <= q[1] - 2
                                 /\ q[4] <= q[2] - 2 } }

InitPattern ==
    /\ src \in BlinkerGrids \cup BlockGrids
    /\ wrapArg = FALSE
    /\ pc = "new"
    /\ snapshot = <<>> /\ vi = 0 /\ vcols = 0
    /\ attrs = {} /\ grid = <<>> /\ rows = 0 /\ cols = 0 /\ wrap = FALSE
    /\ err = "none"
    /\ next_grid = <<>> /\ r = 0 /\ c = 0 /\ last = NoCell /\ steperr = "none"
    /\ lag = 0 /\ stepped = FALSE
    /\ fgrid = src /\ fpc = "idle" /\ fnext = <<>> /\ frow = <<>>
    /\ flast = NoCell /\ ferr = "none"
    /\ lines = <<>> /\ tpc = "off" /\ parsed = <<>> /\ perr = "none"
    /\ RenderOff /\ ExtOff

SpecPattern == InitPattern /\ [][Next]_vars

\* ------------------------------------------------ the buffers of the sessions

\* Lists are objects with an address: heap[a] is the list at address a, a row
\* holding its cells and a grid holding the addresses of its rows.  An object
\* no reference leads to is freed.  An address says which object a reference
\* leads to and nothing else, so after every call the objects are numbered
\* afresh, in the order a walk from the caller's source, session A, session B
\* and the clones meets them.

Sessions == {"A", "B"}
Addrs == 1..MaxObjects

Range(s) == { s[k] : k \in 1..Len(s) }

\* The grids a caller, a session or a clone holds.
Roots(sr, ss, cl) ==
    {sr} \cup { ss[s].grid : s \in { x \in Sessions : ss[x].built } } \cup Range(cl)

\* The objects reached from the grids of `roots`: the grids and their rows.
Reach(h, roots) == roots \cup UNION { Range(h[a]) : a \in roots }

\* The grids held, in the order of the walk.
RootSeq(sr, ss, cl) ==
    <<sr>> \o (IF ss["A"].built THEN <<ss["A"].grid>> ELSE <<>>)
         \o (IF ss["B"].built THEN <<ss["B"].grid>> ELSE <<>>)
         \o cl

\* `seen` and then the addresses of objs not met before, in their order.
RECURSIVE AppendNew(_, _)
AppendNew(seen, objs) ==
    IF objs = <<>> THEN seen
    ELSE AppendNew(IF Head(objs) \in Range(seen) THEN seen ELSE Append(seen, Head(objs)),
                   Tail(objs))

\* The objects met by the walk over the grids of todo, each grid and then its
\* rows.
RECURSIVE Visit(_, _, _)
Visit(h, todo, seen) ==
    IF todo = <<>> THEN seen
    ELSE Visit(h, Tail(todo), AppendNew(seen, <<Head(todo)>> \o h[Head(todo)]))

\* The state after a call that left the heap h and the references sr, ss, cl:
\* the objects not reached freed, the others numbered in the order of the walk.
Settle(h, sr, ss, cl) ==
    LET order == Visit(h, RootSeq(sr, ss, cl), <<>>)
        at(a) == CHOOSE k \in 1..Len(order) : order[k] = a
    IN /\ heap' = [x \in Addrs |->
                     IF x > Len(order) THEN <<>>
                     ELSE IF order[x] \in Roots(sr, ss, cl)
                          THEN [k \in 1..Len(h[order[x]]) |-> at(h[order[x]][k])]
                          ELSE h[order[x]]]
       /\ srcRef' = at(sr)
       /\ sess' = [s \in Sessions |->
                     IF ss[s].built THEN [ss[s] EXCEPT !.grid = at(@)] ELSE ss[s]]
       /\ clones' = [k \in 1..Len(cl) |-> at(cl[k])]

Free == Addrs \ Reach(heap, Roots(srcRef, sess, clones))

\* The k lowest addresses of S, lowest first.
RECURSIVE Smallest(_, _)
Smallest(S, k) ==
    IF k = 0 THEN <<>>
    ELSE LET m == CHOOSE x \in S : \A y \in S : x <= y
         IN <<m>> \o Smallest(S \ {m}, k - 1)

\* The grid at address a, as a value.
Deref(h, a) == [k \in 1..Len(h[a]) |-> h[h[a][k]]]

\* The heap once the list of lists g is built at the addresses `fresh`: the
\* rows at the first Len(g), the list of them at the next.
Store(h, fresh, g) ==
    [x \in Addrs |->
        IF \E k \in 1..Len(g) : fresh[k] = x
        THEN g[CHOOSE k \in 1..Len(g) : fresh[k] = x]
        ELSE IF x = fresh[Len(g) + 1] THEN SubSeq(fresh, 1, Len(g))
        ELSE h[x]]

\* Variant: snapshot = list(grid), a new outer list of the caller's rows.
SnapshotShallow(h, a, fresh) ==
    [h EXCEPT ![fresh[Len(h[a]) + 1]] = h[a]]

\* snapshot = [list(row) for row in grid]: a new list for every row and a new
\* list of them.
Snapshot(h, a, fresh) == Store(h, fresh, Deref(h, a))

\* [row[:] for row in self.grid]
clone_grid(h, a, fresh) == Store(h, fresh, Deref(h, a))

\* next_grid = [[0] * self.cols for _ in range(self.rows)], filled by the
\* loops with the cells g: new rows and a new list of them; the session's
\* current list at address a is left as it is.
StepBuffer(h, a, fresh, g) == Store(h, fresh, g)

\* GameOfLifeMutable(src, w) on a valid source (the validation loop is CtorRow).
NewSession(s, w) ==
    /\ ~sess[s].built
    /\ LET n == Len(heap[srcRef])
           fresh == Smallest(Free, n + 1)
           h1 == Snapshot(heap, srcRef, fresh)
           built == IF n = 0
                    THEN [built |-> TRUE, grid |-> fresh[1], rows |-> 0, cols |-> 0,
                          wrap |-> FALSE]
                    ELSE [built |-> TRUE, grid |-> fresh[n + 1], rows |-> n,
                          cols |-> Len(h1[h1[fresh[n + 1]][1]]), wrap |-> w]
       IN /\ Cardinality(Free) >= n + 1
          /\ Settle(h1, srcRef, [sess EXCEPT ![s] = built], clones)
    /\ UNCHANGED <<src, wrapArg, sessionVars, stepVars, lag, stepped, funVars,
                   textVars, renderVars, guiVars>>

\* self.step() of session s, as one call.
SessionStep(s) ==
    /\ sess[s].built
    /\ IF heap[sess[s].grid] = <<>>
       THEN UNCHANGED heapVars
       ELSE LET n == sess[s].rows
                fresh == Smallest(Free, n + 1)
                g == NextGrid(Deref(heap, sess[s].grid), n, sess[s].cols, sess[s].wrap)
                h1 == StepBuffer(heap, sess[s].grid, fresh, g)
            IN /\ Cardinality(Free) >= n + 1
               /\ Settle(h1, srcRef, [sess EXCEPT ![s].grid = fresh[n + 1]], clones)
    /\ UNCHANGED <<src, wrapArg, sessionVars, stepVars, lag, stepped, funVars,
                   textVars, renderVars, guiVars>>

\* The caller keeps what self.clone_grid() of session s returns.
CloneGrid(s) ==
    /\ sess[s].built
    /\ Len(clones) < MaxClones
    /\ LET n == Len(heap[sess[s].grid])
           fresh == Smallest(Free, n + 1)
           h1 == clone_grid(heap, sess[s].grid, fresh)
       IN /\ Cardinality(Free) >= n + 1
          /\ Settle(h1, srcRef, sess, Append(clones, fresh[n + 1]))
    /\ UNCHANGED <<src, wrapArg, sessionVars, stepVars, lag, stepped, funVars,
                   textVars, renderVars, guiVars>>

\* x[i][j] = 1 - x[i][j] on the grid at address a (i, j from 1).
Poke(a, i, j) ==
    /\ i \in 1..Len(heap[a])
    /\ j \in 1..Len(heap[heap[a][i]])
    /\ heap' = [heap EXCEPT ![heap[a][i]][j] = 1 - @]
    /\ UNCHANGED <<srcRef, sess, clones>>
    /\ UNCHANGED <<src, wrapArg, sessionVars, stepVars, lag, stepped, funVars,
                   textVars, renderVars, guiVars>>

\* x.pop() on the grid at address a: its last row leaves the list.
Pop(a) ==
    /\ heap[a] # <<>>
    /\ Settle([heap EXCEPT ![a] = SubSeq(@, 1, Len(@) - 1)], srcRef, sess, clones)
    /\ UNCHANGED <<src, wrapArg, sessionVars, stepVars, lag, stepped, funVars,
                   textVars, renderVars, guiVars>>

\* What a caller does to the lists it holds: its source and the clones it was
\* returned, cell by cell or row by row; and, as a driver does on a click, the
\* cells of a session's grid.
PokeSource(i, j) == Poke(srcRef, i, j)
PopSource == Pop(srcRef)
PokeClone(k, i, j) == k \in 1..Len(clones) /\ Poke(clones[k], i, j)
PopClone(k) == k \in 1..Len(clones) /\ Pop(clones[k])
PokeSession(s, i, j) == sess[s].built /\ Poke(sess[s].grid, i, j)

\* A caller holds one valid source list and builds two sessions from it.
InitAlias ==
    /\ \E g \in BinaryGrids(AliasRows, AliasCols) :
          /\ heap = Store([a \in Addrs |-> <<>>], [k \in 1..(Len(g) + 1) |-> k], g)
          /\ srcRef = Len(g) + 1
    /\ sess = [s \in Sessions |->
                 [built |-> FALSE, grid |-> 0, rows |-> 0, cols |-> 0, wrap |-> FALSE]]
    /\ clones = <<>>
    /\ src = <<>> /\ wrapArg = FALSE
    /\ pc = "off"
    /\ snapshot = <<>> /\ vi = 0 /\ vcols = 0
    /\ attrs = {} /\ grid = <<>> /\ rows = 0 /\ cols = 0 /\ wrap = FALSE
    /\ err = "none"
    /\ next_grid = <<>> /\ r = 0 /\ c = 0 /\ last = NoCell /\ steperr = "none"
    /\ lag = 0 /\ stepped = FALSE
    /\ fgrid = <<>> /\ fpc = "off" /\ fnext = <<>> /\ frow = <<>>
    /\ flast = NoCell /\ ferr = "none"
    /\ lines = <<>> /\ tpc = "off" /\ parsed = <<>> /\ perr = "none"
    /\ RenderOff /\ GuiOff

NextAlias ==
    \/ \E s \in Sessions, w \in BOOLEAN : NewSession(s, w)
    \/ \E s \in Sessions : SessionStep(s)
    \/ \E s \in Sessions : CloneGrid(s)
    \/ \E i \in 1..AliasRows, j \in 1..AliasCols : PokeSource(i, j)
    \/ PopSource
    \/ \E k \in 1..MaxClones, i \in 1..AliasRows, j \in 1..AliasCols : PokeClone(k, i, j)
    \/ \E k \in 1..MaxClones : PopClone(k)
    \/ \E s \in Sessions, i \in 1..AliasRows, j \in 1..AliasCols : PokeSession(s, i, j)

SpecAlias == InitAlias /\ [][NextAlias]_vars

\* ------------------------------------------------------------- the drivers

\* GameOfLifeGUI drives a GameOfLifeMutable session, GameOfLifeFunctionalGUI
\* the functional step.  Tk runs one callback at a time, to its end.
Drivers == {"imperative", "functional"}

engineVars ==
    <<src, wrapArg, sessionVars, stepVars, lag, stepped, funVars, textVars,
      renderVars, heapVars>>

\* The grids a driver of GuiRows x GuiCols can hold.
GuiGrids == [1..GuiRows -> [1..GuiCols -> {0, 1}]]

\* Variant: the timer left scheduled, after_id kept.
PauseNoCancel(run, aid, pend) ==
    IF ~run
    THEN [running |-> run, after_id |-> aid, pending |-> pend]
    ELSE [running |-> FALSE, after_id |-> aid, pending |-> pend]

\* pause(): the fields and Tk's callbacks after the call.
pause(run, aid, pend) ==
    IF ~run
    THEN [running |-> run, after_id |-> aid, pending |-> pend]
    ELSE [running |-> FALSE,
          after_id |-> 0,
          pending |-> IF aid # 0 THEN pend \ {aid} ELSE pend]

\* self.game.step() of the session built with wrap left False, or
\* functional.step(self.grid).
EngineStep(kind, g) ==
    IF kind = "imperative"
    THEN (IF g = <<>> THEN g ELSE NextGrid(g, Len(g), Len(g[1]), FALSE))
    ELSE step(g)

\* Variant: the engine not called.
AdvanceNoStep(kind, g) == g

\* _advance(): the grid after self.game.step(), or the new value of self.grid.
advance(kind, g) == EngineStep(kind, g)

\* _loop(), entered with running = run while Tk holds the callbacks pend.
Loop(run, pend) ==
    IF ~run
    THEN /\ running' = run
         /\ pending' = pend
         /\ UNCHANGED <<after_id, generation, ggrid, timers, applied>>
    ELSE /\ running' = run
         /\ generation' = generation + 1
         /\ applied' = applied + 1
         /\ timers' = timers + 1
         /\ after_id' = timers + 1
         /\ pending' = pend \cup {timers + 1}
         /\ ggrid' = advance(driver, ggrid)

\* start()
GuiStart ==
    /\ driver \in Drivers
    /\ IF running
       THEN UNCHANGED <<running, after_id, generation, ggrid, pending, timers, applied>>
       ELSE /\ generation < MaxGeneration
            /\ timers < MaxTimers
            /\ Loop(TRUE, pending)
    /\ UNCHANGED <<driver, engineVars>>

\* pause()
GuiPause ==
    /\ driver \in Drivers
    /\ LET p == pause(running, after_id, pending)
       IN /\ running' = p.running
          /\ after_id' = p.after_id
          /\ pending' = p.pending
    /\ UNCHANGED <<driver, generation, ggrid, timers, applied, engineVars>>

\* step_once(): pause(), then _advance()
GuiStepOnce ==
    /\ driver \in Drivers
    /\ generation < MaxGeneration
    /\ LET p == pause(running, after_id, pending)
       IN /\ running' = p.running
          /\ after_id' = p.after_id
          /\ pending' = p.pending
    /\ generation' = generation + 1
    /\ applied' = applied + 1
    /\ UNCHANGED <<driver, timers, engineVars>>
    /\ ggrid' = advance(driver, ggrid)

\* Tk calls the _loop it was told to call by timer t.
TimerFire(t) ==
    /\ driver \in Drivers
    /\ t \in pending
    /\ running => (generation < MaxGeneration /\ timers < MaxTimers)
    /\ Loop(running, pending \ {t})
    /\ UNCHANGED <<driver, engineVars>>

\* randomize(), the random grid being g: pause(), a new session or grid,
\* generation = 0.
GuiRandomize(g) ==
    /\ driver \in Drivers
    /\ LET p == pause(running, after_id, pending)
       IN /\ running' = p.running
          /\ after_id' = p.after_id
          /\ pending' = p.pending
    /\ ggrid' = g
    /\ generation' = 0
    /\ applied' = 0
    /\ UNCHANGED <<driver, timers, engineVars>>

\* clear()
GuiClear ==
    /\ driver \in Drivers
    /\ LET p == pause(running, after_id, pending)
       IN /\ running' = p.running
          /\ after_id' = p.after_id
          /\ pending' = p.pending
    /\ ggrid' = ZeroGrid(GuiRows, GuiCols)
    /\ generation' = 0
    /\ applied' = 0
    /\ UNCHANGED <<driver, timers, engineVars>>

\* toggle_cell(event), the click falling on (row, col).
ToggleCell(row, col) ==
    /\ driver \in Drivers
    /\ IF 0 <= row /\ row < GuiRows /\ 0 <= col /\ col < GuiCols
       THEN ggrid' = Put(ggrid, row, col, IF ggrid[row + 1][col + 1] # 0 THEN 0 ELSE 1)
       ELSE UNCHANGED ggrid
    /\ UNCHANGED <<driver, running, after_id, generation, pending, timers, applied,
                   engineVars>>

\* A driver as constructed: paused, no timer, generation 0, the empty grid.
InitGui ==
    /\ driver \in Drivers
    /\ running = FALSE /\ after_id = 0 /\ generation = 0
    /\ ggrid = ZeroGrid(GuiRows, GuiCols)
    /\ pending = {} /\ timers = 0 /\ applied = 0
    /\ src = <<>> /\ wrapArg = FALSE
    /\ pc = "off"
    /\ snapshot = <<>> /\ vi = 0 /\ vcols = 0
    /\ attrs = {} /\ grid = <<>> /\ rows = 0 /\ cols = 0 /\ wrap = FALSE
    /\ err = "none"
    /\ next_grid = <<>> /\ r = 0 /\ c = 0 /\ last = NoCell /\ steperr = "none"
    /\ lag = 0 /\ stepped = FALSE
    /\ fgrid = <<>> /\ fpc = "off" /\ fnext = <<>> /\ frow = <<>>
    /\ flast = NoCell /\ ferr = "none"
    /\ lines = <<>> /\ tpc = "off" /\ parsed = <<>> /\ perr = "none"
    /\ RenderOff /\ HeapOff

NextGui ==
    \/ GuiStart
    \/ GuiPause
    \/ GuiStepOnce
    \/ \E t \in 1..MaxTimers : TimerFire(t)
    \/ \E g \in GuiGrids : GuiRandomize(g)
    \/ GuiClear
    \/ \E row \in 0..GuiRows, col \in 0..GuiCols : ToggleCell(row, col)

SpecGui == InitGui /\ [][NextGui]_vars

\* ------------------------------------------------------------- properties

\* Both engines are at rest after the same number of steps.
InStep == pc = "ready" /\ lag = 0 /\ fpc = "idle"

\* B3/S23 as the rule is stated: alive next exactly on these four cases.
AliveNext(cell, n) ==
    IF (cell = 1 /\ n \in {2, 3}) \/ (cell = 0 /\ n = 3) THEN 1 ELSE 0

C2_RuleExact ==
    /\ \A cell \in {0, 1}, n \in 0..8 :
          /\ RuleM(cell, n) = AliveNext(cell, n)
          /\ RuleF(cell, n) = AliveNext(cell, n)
    /\ last # NoCell => last.out = AliveNext(last.cell, last.n)
    /\ flast # NoCell => flast.out = AliveNext(flast.cell, flast.n)

C2_Witness ==
    /\ last # NoCell /\ last.cell = 1 /\ last.n = 8 /\ last.out = 0
    /\ flast # NoCell /\ flast.cell = 0 /\ flast.n = 3 /\ flast.out = 1

\* C3: while a step's pass is under way the visible grid is not written, so
\* every neighbour count reads the generation the step started from; the
\* writes go to next_grid, and the visible grid is replaced by next_grid only
\* once the pass is over all cells.  The functional step leaves its input
\* untouched likewise.
C3_PassReadsFrozenGeneration ==
    [][ /\ (pc = "pass" /\ grid' # grid) =>
              /\ r = rows \/ cols = 0
              /\ pc' = "ready"
              /\ grid' = next_grid
        /\ (pc = "pass" /\ pc' = "pass" /\ next_grid' # next_grid) =>
              /\ last'.n = count_live_neighbors(grid, rows, cols, wrap, r, c)
              /\ next_grid' = Put(next_grid, r, c, last'.out)
        /\ (fpc = "pass" /\ fpc' = "pass") => fgrid' = fgrid
      ]_vars

C3_Witness ==
    /\ pc = "pass" /\ r = rows - 1 /\ r > 0
    /\ next_grid # grid /\ next_grid # ZeroGrid(rows, cols)

\* The cell (0,0) of a square N x N session has just been counted, and the
\* cell (N-1, N-1) is alive.
CornerCounted ==
    /\ pc = "pass" /\ rows = cols
    /\ last # NoCell /\ last.r = 0 /\ last.c = 0 /\ <<r, c>> # <<0, 0>>
    /\ grid[rows][cols] = 1

\* The count for (0,0) had the cell (N-1, N-1) been dead.
CountWithoutFarCorner ==
    count_live_neighbors(Put(grid, rows - 1, cols - 1, 0), rows, cols, wrap, 0, 0)

\* C4 as stated: for every N, the count for (0,0) counts a live (N-1, N-1)
\* under Toroidal and does not count it under Bounded.
C4_FarCornerAnyN ==
    CornerCounted =>
        /\ wrap => last.n > CountWithoutFarCorner
        /\ ~wrap => last.n = CountWithoutFarCorner

\* C4, amended: the count for (0,0) counts a live (N-1, N-1) under Toroidal for
\* every N; under Bounded it does not count it for every N other than 2, and
\* for N = 2 it counts it once, (1,1) being the diagonal neighbour of (0,0).
C4_FarCornerUnlessAdjacent ==
    CornerCounted =>
        /\ wrap => last.n > CountWithoutFarCorner
        /\ (~wrap /\ rows # 2) => last.n = CountWithoutFarCorner
        /\ (~wrap /\ rows = 2) => last.n = CountWithoutFarCorner + 1

C4_Witness ==
    /\ CornerCounted /\ rows = 3 /\ wrap
    /\ last.n = 1 /\ CountWithoutFarCorner = 0

\* C5: every neighbour count either engine computes for an in-range cell of a
\* valid grid is an integer in 0..8.
C5_CountWithinEight ==
    /\ last # NoCell => last.n \in 0..8
    /\ flast # NoCell => flast.n \in 0..8

C5_Witness ==
    /\ last # NoCell /\ last.n = 8
    /\ flast # NoCell /\ flast.n = 8

\* A grid with no rows, or whose rows hold no cell.
EmptyShape(g) == Len(g) = 0 \/ Len(g[1]) = 0

\* C8: a grid with rows == 0 or cols == 0 is left as it is by every step of
\* either engine, under either edge policy, and no step raises.
C8_EmptyGridFixed ==
    EmptyShape(src) =>
        /\ pc # "failed" /\ steperr = "none" /\ ferr = "none"
        /\ fgrid = src
        /\ pc \in {"ready", "pass"} => (grid = src /\ rows = Len(src))
        /\ pc = "pass" => next_grid = src

C8_Witness ==
    /\ EmptyShape(src) /\ Len(src) = 2 /\ wrapArg
    /\ stepped /\ lag = 1 /\ pc = "ready" /\ grid = src /\ fgrid = src

\* ---------------------------------------------- properties of construction

\* GameOfLifeMutable(src, wrapArg) has returned or raised.
CtorOver == pc \in {"ready", "failed"}

\* from_strings(lines) has returned or raised.
ParseOver == tpc \in {"returned", "raised", "shown", "reparsed"}

NoAttributes == attrs = {}

\* The lines of the text that hold a character other than whitespace, and the
\* m-th of them.
NonBlank(ls) == { k \in 1..Len(ls) : \E j \in 1..Len(ls[k]) : ls[k][j] \notin Whitespace }

NthNonBlank(ls, m) ==
    CHOOSE k \in NonBlank(ls) : Cardinality({ j \in NonBlank(ls) : j <= k }) = m

\* A non-blank line from its first to its last character that is no whitespace.
Trimmed(line) ==
    LET inked == { j \in 1..Len(line) : line[j] \notin Whitespace }
        lo == CHOOSE j \in inked : \A k \in inked : j <= k
        hi == CHOOSE j \in inked : \A k \in inked : k <= j
    IN SubSeq(line, lo, hi)

Marker(ch) == IF ch \in {"1", "#", "*", "X"} THEN 1 ELSE 0

\* Rows of different lengths.
Ragged(s) == \E i, j \in 1..Len(s) : Len(s[i]) # Len(s[j])

\* The rows of a text: its non-blank lines, trimmed.
TextRows(ls) == [m \in 1..Cardinality(NonBlank(ls)) |-> Trimmed(ls[NthNonBlank(ls, m)])]

BadRow(row) == \E k \in 1..Len(row) : row[k] \notin {0, 1}

C7_OneCellPerCharacter ==
    tpc = "returned" =>
        /\ Len(parsed) = Cardinality(NonBlank(lines))
        /\ \A m \in 1..Len(parsed) :
              LET line == lines[NthNonBlank(lines, m)]
              IN parsed[m] = [j \in 1..Len(line) |-> Marker(line[j])]

\* C7, amended: every non-blank line becomes one row with one cell per
\* character of the line as stripped of its leading and trailing whitespace, a
\* marker alive and every other character, a space inside the line included,
\* dead.
C7_OneCellPerStrippedCharacter ==
    tpc = "returned" =>
        /\ Len(parsed) = Cardinality(NonBlank(lines))
        /\ \A m \in 1..Len(parsed) :
              LET line == TextRows(lines)[m]
              IN parsed[m] = [j \in 1..Len(line) |-> Marker(line[j])]

C7_Witness ==
    /\ tpc = "returned"
    /\ lines = << <<" ", "X", " ", "#">> >>
    /\ parsed = << <<1, 0, 1>> >>

\* C9 as stated: whenever two rows of the source differ in length, the raw
\* constructor and from_strings fail with the ragged-row error and produce no
\* grid.
C9_RaggedAlwaysRaggedError ==
    /\ (CtorOver /\ Ragged(src)) => (pc = "failed" /\ err = "ragged" /\ NoAttributes)
    /\ (ParseOver /\ Ragged(TextRows(lines))) => (tpc = "raised" /\ perr = "ragged")

\* The first row of another length than row 1.
FirstRagged(s) ==
    CHOOSE i \in 1..Len(s) :
        /\ Len(s[i]) # Len(s[1])
        /\ \A k \in 1..(i - 1) : Len(s[k]) = Len(s[1])

\* C9, amended: whenever two rows of the source differ in length, the raw
\* constructor fails and assigns no attribute, with the ragged-row error unless
\* a row before the first row of another length holds a cell that is not 0 or
\* 1, and then with the invalid-cell error; from_strings, whose rows are the
\* stripped non-blank lines, fails with the ragged-row error.
C9_RaggedFails ==
    /\ (CtorOver /\ Ragged(src)) =>
          /\ pc = "failed" /\ NoAttributes
          /\ err = IF \E k \in 1..(FirstRagged(src) - 1) : BadRow(src[k])
                   THEN "invalid" ELSE "ragged"
    /\ (ParseOver /\ Ragged(TextRows(lines))) => (tpc = "raised" /\ perr = "ragged")
    /\ (ParseOver /\ perr = "ragged") => Ragged(TextRows(lines))

C9_Witness ==
    /\ pc = "failed" /\ err = "ragged" /\ NoAttributes
    /\ src = << <<1, 0>>, <<1, 0, 1>> >>

\* C10 as stated: a source holding a cell that is not 0 or 1 is rejected with
\* the invalid-cell error, and no attribute is assigned before every row has
\* passed validation.
C10_BadCellAlwaysInvalidError ==
    /\ (CtorOver /\ \E k \in 1..Len(src) : BadRow(src[k])) =>
          (pc = "failed" /\ err = "invalid")
    /\ pc \in {"validate", "failed"} => NoAttributes

\* The first row holding a cell that is not 0 or 1.
FirstBad(s) ==
    CHOOSE i \in 1..Len(s) : BadRow(s[i]) /\ \A k \in 1..(i - 1) : ~BadRow(s[k])

\* C10, amended: a source holding a cell that is not 0 or 1 is rejected, with
\* the invalid-cell error unless the first row holding such a cell, or a row
\* before it, has another length than the first row, and then with the
\* ragged-row error; and no attribute is assigned before every row has passed
\* validation.
C10_BadCellFails ==
    /\ (CtorOver /\ \E k \in 1..Len(src) : BadRow(src[k])) =>
          /\ pc = "failed"
          /\ err = IF \E k \in 1..FirstBad(src) : Len(src[k]) # Len(src[1])
                   THEN "ragged" ELSE "invalid"
    /\ pc \in {"validate", "failed"} => NoAttributes

C10_Witness ==
    /\ pc = "failed" /\ err = "invalid" /\ NoAttributes
    /\ vi = 1 /\ Len(src) = 2 /\ ~BadRow(src[1])

\* ------------------------------------------------ properties of the codec

\* A list of at least one line, every line of the same length, every character
\* '0' or '1'.
ZeroOneText(ls) ==
    /\ ls # <<>>
    /\ ~Ragged(ls)
    /\ \A k \in 1..Len(ls) : \A j \in 1..Len(ls[k]) : ls[k][j] \in {"0", "1"}

\* to_strings has rendered the parsed grid.
Rendered == tpc \in {"shown", "reparsed"}

\* Rendering emits only '0' and '1', one string per row, top to bottom; and the
\* rendered text parses back to the grid it was rendered from.
RendersBack ==
    /\ Rendered =>
          /\ Len(shown) = Len(parsed)
          /\ \A k \in 1..Len(shown) :
                /\ Len(shown[k]) = Len(parsed[k])
                /\ \A j \in 1..Len(shown[k]) :
                      shown[k][j] = (IF parsed[k][j] = 1 THEN "1" ELSE "0")
    /\ tpc = "reparsed" => (rerr = "none" /\ reparsed = parsed)

\* C11 as stated: every non-empty rectangular list of lines over '0' and '1'
\* is parsed and rendered back to itself; every grid from_strings returns is
\* rendered, in '0' and '1' only, one string per row from the top, to a text
\* that parses back to that grid.
C11_RoundTripAnyZeroOneText ==
    /\ (ParseOver /\ ZeroOneText(lines)) => (tpc # "raised" /\ perr = "none")
    /\ (Rendered /\ ZeroOneText(lines)) => shown = lines
    /\ RendersBack

\* C11, amended: every non-empty rectangular list of lines of at least one
\* character each, over '0' and '1', is parsed and rendered back to itself (a
\* list of lines of no character is rejected as the empty grid); every grid
\* from_strings returns is rendered, in '0' and '1' only, one string per row
\* from the top, to a text that parses back to that grid.
C11_RoundTripZeroOneRows ==
    /\ (ParseOver /\ ZeroOneText(lines) /\ lines[1] # <<>>) =>
          (tpc # "raised" /\ perr = "none")
    /\ (ParseOver /\ ZeroOneText(lines) /\ lines[1] = <<>>) =>
          (tpc = "raised" /\ perr = "empty")
    /\ (Rendered /\ ZeroOneText(lines)) => shown = lines
    /\ RendersBack

C11_Witness ==
    /\ tpc = "reparsed" /\ rerr = "none"
    /\ lines = << <<"0", "1">>, <<"1", "1">> >>
    /\ parsed = << <<0, 1>>, <<1, 1>> >>
    /\ shown = lines /\ reparsed = parsed

\* ------------------------------------------------ properties of the patterns

\* The grid of the same size whose live cells are the vertical line through
\* the centre of the horizontal line of g.
Upright(g) ==
    LET q == CHOOSE q \in (0..MaxPatRows) \X (0..MaxPatCols) :
                 g = GridWith(Len(g), Len(g[1]), HLine(q[1], q[2]))
    IN GridWith(Len(g), Len(g[1]), VLine(q[1], q[2]))

\* A step of the session, and one of the functional engine, has just returned.
SessionStepped == pc = "pass" /\ pc' = "ready"
FunctionalStepped == fpc = "pass" /\ fpc' = "idle"

\* C12: from a horizontal blinker with a dead margin in a bounded grid, both
\* engines start on the horizontal line; every step taken on the horizontal
\* line returns the vertical line through the same centre, and every step
\* taken on that vertical line returns the original grid: vertical after one
\* step, the original after two.
C12_BlinkerOscillates ==
    [][ (src \in BlinkerGrids) =>
          /\ (pc = "validate" /\ pc' = "ready") => (grid' = src /\ fgrid' = src)
          /\ SessionStepped =>
                /\ grid \in {src, Upright(src)}
                /\ grid = src => grid' = Upright(src)
                /\ grid = Upright(src) => grid' = src
          /\ FunctionalStepped =>
                /\ fgrid \in {src, Upright(src)}
                /\ fgrid = src => fgrid' = Upright(src)
                /\ fgrid = Upright(src) => fgrid' = src
      ]_vars

\* The session has taken two steps and is horizontal again, the functional
\* engine has taken one and is vertical.
C12_Witness ==
    /\ src \in BlinkerGrids /\ Len(src) = 4
    /\ pc = "ready" /\ lag = 1 /\ stepped /\ fpc = "idle"
    /\ grid = src /\ fgrid = Upright(src) /\ fgrid # src

\* C13: a grid that is dead but for one 2x2 block, the block alone included,
\* is the grid of both engines after every step under the Bounded policy, no
\* step raises, and every live cell either engine computes has exactly 3 live
\* neighbours.
C13_BlockStill ==
    (src \in BlockGrids /\ ~wrapArg) =>
        /\ pc \in {"ready", "pass"} => grid = src
        /\ fgrid = src
        /\ steperr = "none" /\ ferr = "none"
        /\ (last # NoCell /\ last.cell = 1) => (last.n = 3 /\ last.out = 1)
        /\ (flast # NoCell /\ flast.cell = 1) => (flast.n = 3 /\ flast.out = 1)

C13_Witness ==
    /\ src = GridWith(2, 2, Block(0, 0)) /\ ~wrapArg
    /\ pc = "ready" /\ lag = 0 /\ stepped /\ fpc = "idle"
    /\ grid = src /\ fgrid = src
    /\ last.cell = 1 /\ last.n = 3 /\ flast.cell = 1 /\ flast.n = 3

\* ------------------------------------------- properties of every step

\* The number of cells in a row of g; 0 for the grid with no rows.
Width(g) == IF g = <<>> THEN 0 ELSE Len(g[1])

\* g has nr rows of nc cells, every cell 0 or 1.
ValidShape(g, nr, nc) ==
    /\ Len(g) = nr
    /\ \A k \in 1..Len(g) :
          /\ Len(g[k]) = nc
          /\ \A j \in 1..Len(g[k]) : g[k][j] \in {0, 1}

\* C14: from any valid grid, under either edge policy, no step of either
\* engine raises, and after every step the grid has the rows and columns it
\* started with, rows of equal length and cells that are 0 or 1; the session's
\* rows, cols and wrap are what the constructor assigned, during and after
\* every step.
C14_StepTotalShapeKept ==
    /\ steperr = "none" /\ ferr = "none"
    /\ ValidShape(fgrid, Len(src), Width(src))
    /\ pc \in {"ready", "pass"} =>
          /\ ValidShape(grid, Len(src), Width(src))
          /\ rows = Len(src) /\ cols = Width(src)
          /\ attrs = (IF src = <<>> THEN {"grid", "rows", "cols"}
                                   ELSE {"grid", "rows", "cols", "wrap"})
          /\ "wrap" \in attrs => wrap = wrapArg

C14_Witness ==
    /\ pc = "ready" /\ lag = 0 /\ stepped /\ fpc = "idle" /\ wrapArg
    /\ Len(src) = 3 /\ Width(src) = 2
    /\ grid # src /\ grid # ZeroGrid(3, 2) /\ fgrid # src /\ fgrid # grid
    /\ ValidShape(grid, 3, 2) /\ ValidShape(fgrid, 3, 2)

\* ---------------------------------------------- properties of the lookups

\* The cells of g at the index pairs of s, summed.
RECURSIVE SumAt(_, _)
SumAt(g, s) ==
    IF s = <<>> THEN 0 ELSE g[Head(s)[1] + 1][Head(s)[2] + 1] + SumAt(g, Tail(s))

\* Every index pair of s is inside nr rows and nc columns.
InStorage(s, nr, nc) ==
    \A k \in 1..Len(s) : s[k][1] \in 0..(nr - 1) /\ s[k][2] \in 0..(nc - 1)

\* The neighbours of (row, col) that lie inside nr rows and nc columns.
NeighboursInside(nr, nc, row, col) ==
    ({ <<row + dr, col + dc>> : dr \in {-1, 0, 1}, dc \in {-1, 0, 1} }
        \cap ((0..(nr - 1)) \X (0..(nc - 1))))
        \ { <<row, col>> }

\* The pairs (i mod nr, j mod nc) of the eight neighbours (i, j) of (row, col).
NeighboursWrapped(nr, nc, row, col) ==
    { <<(row + dr) % nr, (col + dc) % nc>> :
        <<dr, dc>> \in ({-1, 0, 1} \X {-1, 0, 1}) \ { <<0, 0>> } }

\* C16: every index pair read while counting the neighbours of an in-range
\* cell lies in [0, rows) x [0, cols), in both engines and under both edge
\* policies; under Bounded the pairs read are the neighbours inside the grid,
\* each once, the others being skipped; under Toroidal eight pairs are read,
\* the eight neighbours wrapped modulo rows and cols; and the count of a cell
\* of the pass under way is the sum of the cells read.
C16_LookupsInStorage ==
    /\ last # NoCell =>
          /\ rows >= 1 /\ cols >= 1
          /\ InStorage(last.seen, rows, cols)
          /\ ~wrap => /\ Range(last.seen) = NeighboursInside(rows, cols, last.r, last.c)
                       /\ Len(last.seen) = Cardinality(Range(last.seen))
          /\ wrap => /\ Len(last.seen) = 8
                      /\ Range(last.seen) = NeighboursWrapped(rows, cols, last.r, last.c)
          /\ (pc = "pass" /\ <<r, c>> # <<0, 0>>) => last.n = SumAt(grid, last.seen)
    /\ flast # NoCell =>
          /\ Len(fgrid) >= 1 /\ Width(fgrid) >= 1
          /\ InStorage(flast.seen, Len(fgrid), Width(fgrid))
          /\ Range(flast.seen) = NeighboursInside(Len(fgrid), Width(fgrid), flast.r, flast.c)
          /\ Len(flast.seen) = Cardinality(Range(flast.seen))
          /\ (fpc = "pass" /\ <<fnext, frow>> # <<<<>>, <<>>>>) =>
                flast.n = SumAt(fgrid, flast.seen)

\* A corner cell counted under Toroidal with reads wrapped to the far edges,
\* and a corner cell counted by the functional engine with five offsets
\* skipped.
C16_Witness ==
    /\ last # NoCell /\ wrap /\ rows = 3 /\ cols = 3 /\ last.r = 0 /\ last.c = 0
    /\ <<2, 2>> \in Range(last.seen) /\ Len(last.seen) = 8 /\ last.n = 8
    /\ flast # NoCell /\ flast.r = 2 /\ flast.c = 2 /\ Len(flast.seen) = 3

\* ---------------------------------------------- properties of the buffers

\* The grid of session s and the caller's source, as values, before and after
\* a call.
SessionGrid(s) == Deref(heap, sess[s].grid)
SessionGridAfter(s) == Deref(heap', sess'[s].grid)
SourceKept == Deref(heap', srcRef') = Deref(heap, srcRef)
ClonesKept ==
    \A k \in 1..Len(clones) : Deref(heap', clones'[k]) = Deref(heap, clones[k])

\* The caller changes its source, or a list clone_grid returned.
SourceMutated == PopSource \/ \E i \in 1..AliasRows, j \in 1..AliasCols : PokeSource(i, j)
CloneMutated ==
    \E k \in 1..MaxClones :
        PopClone(k) \/ \E i \in 1..AliasRows, j \in 1..AliasCols : PokeClone(k, i, j)

\* Session s is stepped, or a cell of its grid is set.
SessionMutated(s) ==
    SessionStep(s) \/ \E i \in 1..AliasRows, j \in 1..AliasCols : PokeSession(s, i, j)

\* C15: once a session is built, its grid is not changed by a change of the
\* source it was built from, by a step or a change of the other session built
\* from the same source (nor by that session being built), or by a change of a
\* list clone_grid returned; and a step of a session changes neither the
\* source nor a clone returned before.
C15_BuffersNeverShared ==
    [][ /\ \A s \in Sessions :
              (sess[s].built /\ (SourceMutated \/ CloneMutated)) =>
                  SessionGridAfter(s) = SessionGrid(s)
        /\ \A s \in Sessions : \A o \in Sessions \ {s} :
              (sess[s].built /\ (SessionMutated(o) \/ \E w \in BOOLEAN : NewSession(o, w))) =>
                  SessionGridAfter(s) = SessionGrid(s)
        /\ \A s \in Sessions :
              SessionStep(s) => (SourceKept /\ ClonesKept)
      ]_vars

\* Both sessions built, a clone returned, and the source, the two grids and
\* the clone all of two rows and all different.
C15_Witness ==
    /\ sess # <<>> /\ sess["A"].built /\ sess["B"].built /\ Len(clones) = 1
    /\ LET held == << Deref(heap, srcRef), SessionGrid("A"), SessionGrid("B"),
                      Deref(heap, clones[1]) >>
       IN /\ \A k \in 1..4 : Len(held[k]) = 2
          /\ \A k, m \in 1..4 : k # m => held[k] # held[m]

\* ---------------------------------------------- properties of the drivers

\* Tk holds at most one callback, the one after_id names, and none while the
\* driver is paused.
OneTimerAtMost ==
    /\ Cardinality(pending) <= 1
    /\ ~running => pending = {}
    /\ pending # {} => pending = {after_id}

\* C17: in both drivers, after any sequence of start, pause, step_once,
\* randomize, clear, toggle_cell and timer callbacks, at most one _loop callback
\* is pending and none is while running is False; and start() on a running
\* driver schedules nothing and advances nothing.
C17_OneTimerPending ==
    /\ OneTimerAtMost
    /\ [][ /\ OneTimerAtMost'
           /\ (GuiStart /\ running) =>
                 UNCHANGED <<running, after_id, generation, ggrid, pending, timers, applied>>
         ]_vars

\* A running driver whose timer has fired and been followed by another.
C17_Witness ==
    /\ driver = "functional" /\ running /\ timers = 2 /\ generation = 2
    /\ pending = {2} /\ after_id = 2

\* One engine step applied to the grid, the counter one more.
OneStepApplied ==
    /\ ggrid' = EngineStep(driver, ggrid)
    /\ generation' = generation + 1

\* C18: in both drivers generation equals the number of engine steps applied
\* since construction or the last randomize or clear; a timer callback, start()
\* on a paused driver and step_once() each apply one engine step and add 1 to
\* generation; randomize and clear set it to 0 and leave the driver paused;
\* pause and toggle_cell leave it as it is, and pause leaves the grid as it is.
C18_GenerationCountsSteps ==
    /\ generation = applied
    /\ [][ /\ generation' = applied'
           /\ (\E t \in pending : TimerFire(t)) => OneStepApplied
           /\ (GuiStart /\ ~running) => OneStepApplied
           /\ GuiStepOnce => OneStepApplied
           /\ (GuiClear \/ GuiRandomize(ggrid')) =>
                 (generation' = 0 /\ ~running' /\ pending' = {})
           /\ GuiPause => (generation' = generation /\ ggrid' = ggrid)
           /\ (\E row \in 0..GuiRows, col \in 0..GuiCols : ToggleCell(row, col)) =>
                 generation' = generation
         ]_vars

\* A running imperative driver at generation 2 whose grid holds a live cell.
C18_Witness ==
    /\ driver = "imperative" /\ generation = 2 /\ applied = 2 /\ timers = 2
    /\ running /\ ggrid # ZeroGrid(GuiRows, GuiCols)

====
